---- MODULE Spec2Model ----
(***************************************************************************)
(* CivicPulse backend (civicpulse-backend/agents.py, main.py).             *)
(*                                                                         *)
(* Text is modelled by TLA+ strings, character by character: lower(),      *)
(* strip(), replace(), the "in" substring test and json.loads are          *)
(* operators over the characters of a string.  An Optional[str] is a       *)
(* sequence of length 0 (None) or 1 (the string).  A JSON value is a       *)
(* tagged record (JNull, JStr, ...).                                       *)
(***************************************************************************)
EXTENDS Integers, Sequences, FiniteSets, TLC

VARIABLES env, request, response, complaints, upvotes, upvoters

vars == <<env, request, response, complaints, upvotes, upvoters>>

---------------------------------------------------------------------------
(* Bounds of the model.                                                    *)

\* Fragments concatenated into a raw issue type handed to the agents.
MaxWords == 2
\* Fragments concatenated into a chat message.
MaxChatWords == 1
\* Rows the complaints table holds at most.
MaxComplaints == 1
\* Concurrent callers of the upvote endpoint, one request each.
MaxClients == 2
\* The largest upvote count a row holds before the requests start.
MaxStoredVotes == 1

---------------------------------------------------------------------------
(* Python str operations.                                                  *)

AsciiUpper == "ABCDEFGHIJKLMNOPQRSTUVWXYZ"
AsciiLower == "abcdefghijklmnopqrstuvwxyz"
Whitespace == {" ", "\t", "\n", "\r"}

CharAt(s, i) == SubSeq(s, i, i)

\* str.lower() of one character (ASCII letters; every other character of
\* the model's alphabet is its own lower case).
LowerOf == [i \in 1..Len(AsciiUpper) |-> CharAt(AsciiLower, i)]
UpperIndex(c) == {i \in 1..Len(AsciiUpper) : CharAt(AsciiUpper, i) = c}
LowerChar(c) ==
  IF UpperIndex(c) = {} THEN c ELSE LowerOf[CHOOSE i \in UpperIndex(c) : TRUE]

\* str.lower(), the halves of the string lowered one after the other.
RECURSIVE Lower(_)
Lower(s) ==
  IF Len(s) <= 1 THEN LowerChar(s)
  ELSE LET h == Len(s) \div 2
       IN Lower(SubSeq(s, 1, h)) \o Lower(SubSeq(s, h + 1, Len(s)))

\* The least i in lo..hi at which sub occurs in s, 0 when there is none.
RECURSIVE Find(_, _, _, _)
Find(s, sub, lo, hi) ==
  IF lo > hi THEN 0
  ELSE IF lo = hi
       THEN IF SubSeq(s, lo, lo + Len(sub) - 1) = sub THEN lo ELSE 0
       ELSE LET m == (lo + hi) \div 2
                l == Find(s, sub, lo, m)
            IN IF l # 0 THEN l ELSE Find(s, sub, m + 1, hi)

\* "sub in s"
Contains(sub, s) == sub = "" \/ Find(s, sub, 1, Len(s) - Len(sub) + 1) # 0

StartsWith(s, p) == Len(s) >= Len(p) /\ SubSeq(s, 1, Len(p)) = p

\* The least (first = TRUE) or greatest index in lo..hi of a character of s
\* that is no whitespace, 0 when there is none.
RECURSIVE NonSpace(_, _, _, _)
NonSpace(s, first, lo, hi) ==
  IF lo > hi THEN 0
  ELSE IF lo = hi
       THEN IF CharAt(s, lo) \in Whitespace THEN 0 ELSE lo
       ELSE LET m == (lo + hi) \div 2
                l == NonSpace(s, first, lo, m)
                r == NonSpace(s, first, m + 1, hi)
            IN IF first THEN (IF l # 0 THEN l ELSE r)
               ELSE (IF r # 0 THEN r ELSE l)

\* str.lstrip()
LStrip(s) ==
  LET i == NonSpace(s, TRUE, 1, Len(s))
  IN IF i = 0 THEN "" ELSE SubSeq(s, i, Len(s))

\* str.strip()
Strip(s) ==
  LET i == NonSpace(s, TRUE, 1, Len(s))
      j == NonSpace(s, FALSE, 1, Len(s))
  IN IF i = 0 THEN "" ELSE SubSeq(s, i, j)

\* s.replace(old, new) for a non-empty old: left to right, non-overlapping.
RECURSIVE Replace(_, _, _)
Replace(s, old, new) ==
  LET i == Find(s, old, 1, Len(s) - Len(old) + 1)
  IN IF i = 0 THEN s
     ELSE SubSeq(s, 1, i - 1) \o new
            \o Replace(SubSeq(s, i + Len(old), Len(s)), old, new)

\* Optional[str]
None == <<>>
Some(s) == <<s>>
\* v or 0, for an Optional[int] v.
OrZero(v) == IF v = None THEN 0 ELSE v[1]

---------------------------------------------------------------------------
(* agents.py: the classification and routing agents.                       *)

\* Mutant: the Streetlight entries moved ahead of the Road entries.
classification_map_streetlight_first ==
  << <<"garbage", "Garbage">>, <<"trash", "Garbage">>,
     <<"waste", "Garbage">>, <<"dustbin", "Garbage">>,
     <<"streetlight", "Streetlight">>, <<"light", "Streetlight">>,
     <<"lamp", "Streetlight">>, <<"dark", "Streetlight">>,
     <<"road", "Road">>, <<"pothole", "Road">>,
     <<"street", "Road">>, <<"asphalt", "Road">>,
     <<"water", "Water">>, <<"leak", "Water">>,
     <<"pipe", "Water">>, <<"drainage", "Water">> >>

\* The dict literal, in insertion order (the order a Python dict iterates).
classification_map ==
  << <<"garbage", "Garbage">>, <<"trash", "Garbage">>,
     <<"waste", "Garbage">>, <<"dustbin", "Garbage">>,
     <<"road", "Road">>, <<"pothole", "Road">>,
     <<"street", "Road">>, <<"asphalt", "Road">>,
     <<"water", "Water">>, <<"leak", "Water">>,
     <<"pipe", "Water">>, <<"drainage", "Water">>,
     <<"streetlight", "Streetlight">>, <<"light", "Streetlight">>,
     <<"lamp", "Streetlight">>, <<"dark", "Streetlight">> >>

standard_categories == <<"Garbage", "Road", "Water", "Streetlight">>

run_classification_agent(issue_type) ==
  IF issue_type = "" THEN "General"
  ELSE
    LET key == Strip(Lower(issue_type))
        hits == {i \in 1..Len(classification_map) :
                   Contains(classification_map[i][1], key)}
        cats == {j \in 1..Len(standard_categories) :
                   Lower(standard_categories[j]) = key}
    IN IF hits # {}
       THEN classification_map[CHOOSE i \in hits : \A k \in hits : i <= k][2]
       ELSE IF cats # {}
            THEN standard_categories[CHOOSE j \in cats : \A k \in cats : j <= k]
            ELSE "General"

routing_map ==
  << <<"Garbage", "Sanitation Dept.">>,
     <<"Road", "Public Works Dept.">>,
     <<"Water", "Water Board">>,
     <<"Streetlight", "Electricity Board">>,
     <<"General", "Municipal Corporation">> >>

\* Mutant: the department of General as the default of the lookup.
run_routing_agent_general_default(issue_type) ==
  LET found == {i \in 1..Len(routing_map) : routing_map[i][1] = issue_type}
  IN IF found # {} THEN routing_map[CHOOSE i \in found : TRUE][2]
     ELSE "Municipal Corporation"

\* routing_map.get(issue_type, "City Helpdesk")
run_routing_agent(issue_type) ==
  LET found == {i \in 1..Len(routing_map) : routing_map[i][1] = issue_type}
  IN IF found # {} THEN routing_map[CHOOSE i \in found : TRUE][2]
     ELSE "City Helpdesk"

---------------------------------------------------------------------------
(* json.loads, character by character.  A JSON value is a tagged record.   *)
(* The grammar covered: null, true, false, integers, strings with the      *)
(* escapes \" \\ \/ \n \t \r, arrays and objects; anything else is a       *)
(* JSONDecodeError.                                                        *)

JNull == [t |-> "null"]
JBool(b) == [t |-> "bool", b |-> b]
JNum(n) == [t |-> "num", n |-> n]
JStr(s) == [t |-> "str", s |-> s]
JArr(items) == [t |-> "arr", items |-> items]
\* f: a function from the keys to the values (a later key replaces an earlier one)
JObj(f) == [t |-> "obj", f |-> f]

Digits == "0123456789"
IsDigit(c) == \E i \in 1..Len(Digits) : CharAt(Digits, i) = c
DigitVal(c) == (CHOOSE i \in 1..Len(Digits) : CharAt(Digits, i) = c) - 1

ParseFail == [ok |-> FALSE]
ParseOk(v, rest) == [ok |-> TRUE, v |-> v, rest |-> rest]

\* The least index in lo..hi of a character of s that ends a run of plain
\* characters of a string literal (a quote, a backslash, a control
\* character), 0 when there is none.
RECURSIVE Special(_, _, _)
Special(s, lo, hi) ==
  IF lo > hi THEN 0
  ELSE IF lo = hi
       THEN IF CharAt(s, lo) \in {"\"", "\\", "\n", "\t", "\r"} THEN lo ELSE 0
       ELSE LET m == (lo + hi) \div 2
                l == Special(s, lo, m)
            IN IF l # 0 THEN l ELSE Special(s, m + 1, hi)

\* The characters of a string literal after its opening quote; acc holds
\* the characters read.
RECURSIVE ScanString(_, _)
ScanString(s, acc) ==
  LET i == Special(s, 1, Len(s)) IN
  IF i = 0 THEN ParseFail
  ELSE LET c == CharAt(s, i)
           a == acc \o SubSeq(s, 1, i - 1)
       IN IF c = "\"" THEN ParseOk(a, SubSeq(s, i + 1, Len(s)))
          ELSE IF c # "\\" \/ Len(s) < i + 1 THEN ParseFail
          ELSE LET e == CharAt(s, i + 1)
                   r == SubSeq(s, i + 2, Len(s))
               IN IF e \in {"\"", "\\", "/"} THEN ScanString(r, a \o e)
                  ELSE IF e = "n" THEN ScanString(r, a \o "\n")
                  ELSE IF e = "t" THEN ScanString(r, a \o "\t")
                  ELSE IF e = "r" THEN ScanString(r, a \o "\r")
                  ELSE ParseFail

RECURSIVE ScanDigits(_, _)
ScanDigits(s, n) ==
  IF s # "" /\ IsDigit(Head(s))
  THEN ScanDigits(Tail(s), 10 * n + DigitVal(Head(s)))
  ELSE [n |-> n, rest |-> s]

\* An integer: -? (0 | [1-9][0-9]*)
ParseNumber(s) ==
  LET neg == StartsWith(s, "-")
      d == IF neg THEN Tail(s) ELSE s
  IN IF d = "" \/ ~IsDigit(Head(d)) THEN ParseFail
     ELSE IF Head(d) = "0" THEN ParseOk(JNum(0), Tail(d))
     ELSE LET r == ScanDigits(d, 0)
          IN ParseOk(JNum(IF neg THEN 0 - r.n ELSE r.n), r.rest)

RECURSIVE ParseValue(_)
RECURSIVE ParsePairs(_, _)
RECURSIVE ParseItems(_, _)

\* The members of an object, s starting at a key; f holds the members read.
ParsePairs(s, f) ==
  IF ~StartsWith(s, "\"") THEN ParseFail
  ELSE LET k == ScanString(Tail(s), "") IN
    IF ~k.ok THEN ParseFail
    ELSE LET c == LStrip(k.rest) IN
      IF ~StartsWith(c, ":") THEN ParseFail
      ELSE LET v == ParseValue(Tail(c)) IN
        IF ~v.ok THEN ParseFail
        ELSE LET g == (k.v :> v.v) @@ f
                 r == LStrip(v.rest)
             IN IF StartsWith(r, "}") THEN ParseOk(JObj(g), Tail(r))
                ELSE IF StartsWith(r, ",") THEN ParsePairs(LStrip(Tail(r)), g)
                ELSE ParseFail

\* The items of an array, s starting at an item; items holds the items read.
ParseItems(s, items) ==
  LET v == ParseValue(s) IN
    IF ~v.ok THEN ParseFail
    ELSE LET r == LStrip(v.rest) IN
      IF StartsWith(r, "]") THEN ParseOk(JArr(Append(items, v.v)), Tail(r))
      ELSE IF StartsWith(r, ",") THEN ParseItems(Tail(r), Append(items, v.v))
      ELSE ParseFail

ParseValue(s0) ==
  LET s == LStrip(s0) IN
    IF s = "" THEN ParseFail
    ELSE IF StartsWith(s, "null") THEN ParseOk(JNull, SubSeq(s, 5, Len(s)))
    ELSE IF StartsWith(s, "true") THEN ParseOk(JBool(TRUE), SubSeq(s, 5, Len(s)))
    ELSE IF StartsWith(s, "false") THEN ParseOk(JBool(FALSE), SubSeq(s, 6, Len(s)))
    ELSE IF Head(s) = "\""
         THEN LET r == ScanString(Tail(s), "")
              IN IF r.ok THEN ParseOk(JStr(r.v), r.rest) ELSE ParseFail
    ELSE IF Head(s) = "{"
         THEN LET m == LStrip(Tail(s))
              IN IF StartsWith(m, "}") THEN ParseOk(JObj(<<>>), Tail(m))
                 ELSE ParsePairs(m, <<>>)
    ELSE IF Head(s) = "["
         THEN LET m == LStrip(Tail(s))
              IN IF StartsWith(m, "]") THEN ParseOk(JArr(<<>>), Tail(m))
                 ELSE ParseItems(m, <<>>)
    ELSE ParseNumber(s)

\* json.loads(text): [ok |-> TRUE, v |-> value], or [ok |-> FALSE] for a
\* JSONDecodeError (no value, or data after the value).
json_loads(text) ==
  LET r == ParseValue(text) IN
    IF r.ok /\ LStrip(r.rest) = "" THEN [ok |-> TRUE, v |-> r.v]
    ELSE [ok |-> FALSE]

\* dict.get(key, default)
DictGet(d, key, default) == IF key \in DOMAIN d.f THEN d.f[key] ELSE default

---------------------------------------------------------------------------
(* Python control flow: a call returns a value or raises an exception.     *)

Return(v) == [raised |-> FALSE, value |-> v]
Raise(e) == [raised |-> TRUE, exc |-> e]

\* The exception classes the handlers meet (all derive from Exception).
Exceptions ==
  {"BackendError", "JSONDecodeError", "AttributeError", "ValidationError",
   "ConnectionError", "HTTPError", "UnidentifiedImageError"}

\* "except json.JSONDecodeError"
ExceptJSONDecodeError(e) == e = "JSONDecodeError"
\* Mutant: an except clause that catches the backend's errors only.
ExceptBackendErrorOnly(e) == e = "BackendError"

\* "except Exception"
ExceptException(e) == e \in Exceptions

HTTP200(body) == [status |-> 200, body |-> body]
\* An HTTPException, or an exception no handler caught.
HTTP500(detail) == [status |-> 500, detail |-> detail]

---------------------------------------------------------------------------
(* main.py: the pydantic models of the chat endpoint.                      *)

\* Validation of a value against "str".  pydantic 1 turns an int or a bool
\* into its str(); pydantic 2 (strict) rejects it.  Both reject None, a
\* list and a dict.
StrField(v, strict) ==
  IF v.t = "str" THEN Return(v.s)
  ELSE IF v.t = "num" /\ ~strict THEN Return(ToString(v.n))
  ELSE IF v.t = "bool" /\ ~strict THEN Return(IF v.b THEN "True" ELSE "False")
  ELSE Raise("ValidationError")

\* Validation against "Optional[str]".
OptStrField(v, strict) ==
  IF v.t = "null" THEN Return(None)
  ELSE LET r == StrField(v, strict)
       IN IF r.raised THEN r ELSE Return(Some(r.value))

\* ExtractedData(issue_type=..., description=..., location_text=...)
ExtractedData(issue_type, description, location_text, strict) ==
  LET i == OptStrField(issue_type, strict)
      d == OptStrField(description, strict)
      l == OptStrField(location_text, strict)
  IN IF i.raised \/ d.raised \/ l.raised THEN Raise("ValidationError")
     ELSE Return([issue_type |-> i.value, description |-> d.value,
                  location_text |-> l.value])

\* ChatResponse(assistantReply=..., extractedData=...), extractedData an
\* ExtractedData already built.
ChatResponse(assistantReply, extractedData, strict) ==
  LET a == StrField(assistantReply, strict)
  IN IF a.raised THEN a
     ELSE Return([assistantReply |-> a.value, extractedData |-> extractedData])

---------------------------------------------------------------------------
(* main.py: chat_endpoint.  The text of a code fence is written with ^ for *)
(* the backquote, which a TLA+ string cannot hold.                         *)

FenceJson == "^^^json"
Fence == "^^^"

\* response_text.replace(FenceJson, "").replace(Fence, "").strip()
CleanText(response_text) ==
  Strip(Replace(Replace(response_text, FenceJson, ""), Fence, ""))

\* ChatResponse(assistantReply=reply, extractedData=x), x the
\* ExtractedData built or the exception its validation raised.
ChatBuild(reply, x, strict) ==
  IF x.raised THEN x ELSE ChatResponse(reply, x.value, strict)

\* The fields read from data (a dict) and from ed, which is
\* data.get("extractedData", {}); ed.get raises unless ed is a dict.
ChatFromDict(data, ed, strict) ==
  IF ed.t # "obj" THEN Raise("AttributeError")
  ELSE ChatBuild(DictGet(data, "assistantReply", JStr("I've noted that.")),
                 ExtractedData(DictGet(ed, "issue_type", JNull),
                               DictGet(ed, "description", JNull),
                               DictGet(ed, "location_text", JNull), strict),
                 strict)

\* data.get raises unless data is a dict.
ChatFromData(data, strict) ==
  IF data.t # "obj" THEN Raise("AttributeError")
  ELSE ChatFromDict(data, DictGet(data, "extractedData", JObj(<<>>)), strict)

ChatFromParsed(parsed, strict) ==
  IF ~parsed.ok THEN Raise("JSONDecodeError")
  ELSE ChatFromData(parsed.v, strict)

\* The body of the inner try: json.loads and the ChatResponse built from it.
ChatFromJson(clean_text, strict) == ChatFromParsed(json_loads(clean_text), strict)

\* "except json.JSONDecodeError" of the inner try, r what its body did.
ChatCatchDecode(r, message, clean_text) ==
  IF r.raised /\ ExceptJSONDecodeError(r.exc)
  THEN Return([assistantReply |-> clean_text,
               extractedData |-> [issue_type |-> None,
                                  description |-> Some(message),
                                  location_text |-> None]])
  ELSE r

\* The inner try.
ChatParse(message, clean_text, strict) ==
  ChatCatchDecode(ChatFromJson(clean_text, strict), message, clean_text)

\* The keyword test of the fallback logic.
FallbackIssueType(message) ==
  LET message_lower == Lower(message) IN
  IF Contains("garbage", message_lower) \/ Contains("trash", message_lower)
     \/ Contains("rubbish", message_lower)
  THEN "Garbage"
  ELSE IF Contains("road", message_lower) \/ Contains("pothole", message_lower)
  THEN "Road"
  ELSE IF Contains("water", message_lower) \/ Contains("leak", message_lower)
          \/ Contains("pipe", message_lower)
  THEN "Water"
  ELSE IF Contains("light", message_lower) \/ Contains("lamp", message_lower)
          \/ Contains("dark", message_lower)
  THEN "Streetlight"
  ELSE "General"

FallbackReply(issue_type) ==
  "I've identified this as a '" \o issue_type
    \o "' issue. I've automatically filled out the form for you with the details."

\* Mutant: the location left unset by the fallback.
ChatFallbackNoLocation(issue_type, message) ==
  [assistantReply |-> FallbackReply(issue_type),
   extractedData |-> [issue_type |-> Some(issue_type),
                      description |-> Some(message),
                      location_text |-> None]]

ChatFallbackFor(issue_type, message) ==
  [assistantReply |-> FallbackReply(issue_type),
   extractedData |-> [issue_type |-> Some(issue_type),
                      description |-> Some(message),
                      location_text |-> Some("")]]

\* The fallback logic, from message_lower to the ChatResponse returned.
ChatFallback(message) == ChatFallbackFor(FallbackIssueType(message), message)

\* The body of the outer try: the backend call and the inner try.
ChatPrimary(message, backend, strict) ==
  IF backend.kind = "raise" THEN Raise("BackendError")
  ELSE ChatParse(message, CleanText(backend.text), strict)

\* "except Exception" of the outer try, r what its body did; an exception
\* it does not catch leaves the handler.
ChatCatchAll(r, message) ==
  IF ~r.raised THEN HTTP200(r.value)
  ELSE IF ExceptException(r.exc) THEN HTTP200(ChatFallback(message))
  ELSE HTTP500("Internal Server Error")

\* The handler: gemini_api_key is the module's key (GEMINI_API_KEY or
\* OPENAI_API_KEY), backend what generate_content and response.text do.
chat_endpoint(api_key, message, backend, strict) ==
  IF api_key THEN ChatCatchAll(ChatPrimary(message, backend, strict), message)
  ELSE HTTP200(ChatFallback(message))

---------------------------------------------------------------------------
(* agents.py: run_vision_agent, and main.py: analyze_image.                *)

VisionFallback ==
  JObj(("is_civic_issue" :> JBool(FALSE))
       @@ ("rejection_reason" :> JStr("Analysis failed, please try again."))
       @@ ("issue_type" :> JStr("General"))
       @@ ("severity" :> JNum(0))
       @@ ("description" :> JStr(""))
       @@ ("location_context" :> JStr(""))
       @@ ("required_action" :> JStr("")))

VisionParsed(parsed) ==
  IF parsed.ok THEN Return(parsed.v) ELSE Raise("JSONDecodeError")

\* The body of the try: the download, PIL's decoding, the backend call and
\* json.loads.  fetch, decode: "ok" or the exception raised.
VisionTry(fetch, decode, backend) ==
  IF fetch # "ok" THEN Raise(fetch)
  ELSE IF decode # "ok" THEN Raise(decode)
  ELSE IF backend.kind = "raise" THEN Raise("BackendError")
  ELSE VisionParsed(json_loads(CleanText(backend.text)))

\* "except Exception" of the try, r what its body did.
VisionCatchAll(r) ==
  IF ~r.raised THEN r.value
  ELSE IF ExceptException(r.exc) THEN VisionFallback
  ELSE [t |-> "uncaught", exc |-> r.exc]

\* The value returned: a JSON value, JNull for Python's None.
run_vision_agent(api_key, fetch, decode, backend) ==
  IF ~api_key THEN JNull ELSE VisionCatchAll(VisionTry(fetch, decode, backend))

\* Python's truth value of a JSON value.
Truthy(v) ==
  IF v.t = "null" THEN FALSE
  ELSE IF v.t = "bool" THEN v.b
  ELSE IF v.t = "num" THEN v.n # 0
  ELSE IF v.t = "str" THEN v.s # ""
  ELSE IF v.t = "arr" THEN v.items # <<>>
  ELSE IF v.t = "obj" THEN DOMAIN v.f # {}
  ELSE TRUE

\* "if not result: raise HTTPException(500)", else the result is returned.
AnalyzeResult(result) ==
  IF result.t = "uncaught" THEN HTTP500("Internal Server Error")
  ELSE IF ~Truthy(result) THEN HTTP500("Image analysis failed")
  ELSE HTTP200(result)

analyze_image(api_key, fetch, decode, backend) ==
  AnalyzeResult(run_vision_agent(api_key, fetch, decode, backend))

---------------------------------------------------------------------------
(* main.py: create_complaint.  A row of the complaints table keeps the     *)
(* columns the agents decide; the other columns are copied from the        *)
(* request unchanged.                                                      *)

ComplaintRow(complaint_id, issue_type) ==
  LET normalized_issue_type == run_classification_agent(issue_type)
      final_dept == run_routing_agent(normalized_issue_type)
  IN [complaint_id |-> complaint_id,
      issue_type |-> normalized_issue_type,
      assigned_department |-> final_dept,
      status |-> "Pending"]

---------------------------------------------------------------------------
(* The inputs of the model.                                                *)

Categories == {"Garbage", "Road", "Water", "Streetlight", "General"}

Fragments ==
  {"Rubbish near my house", "pothole on mg road", "GARBAGE", "Trash",
   "dustbin waste", "Street", "light", "asphalt", "Water leak",
   "drainage pipe", "dark lamp", " "}

ChatFragments ==
  {"Rubbish near my house", "sadak kharab hai", "Water leak on the dark road",
   "dustbin waste", "Street light"}

RECURSIVE Phrases(_, _)
\* The concatenations of at most n members of frags.
Phrases(frags, n) ==
  IF n = 0 THEN {""}
  ELSE LET shorter == Phrases(frags, n - 1)
       IN shorter \cup {p \o f : p \in shorter, f \in frags}

\* A category name as a caller may spell it: as the chat extractor returns
\* it, in another letter case, with whitespace around it.
CategorySpellings ==
  UNION {{c, Lower(c), " " \o c \o "\n"} : c \in Categories}
    \cup {"GARBAGE", "ROAD", "WATER", "STREETLIGHT", "GENERAL", "\tstreetLight "}

IssueTypes == Phrases(Fragments, MaxWords) \cup CategorySpellings
ChatMessages == Phrases(ChatFragments, MaxChatWords)
Languages == {"English", "Hindi"}

\* What a caller may hand to the routing agent.
RoutingInputs == Categories \cup {"Other", "garbage", "", "City Helpdesk"}

ReplyMembers ==
  {"", "\"assistantReply\": null, ", "\"assistantReply\": \"\", ",
   "\"assistantReply\": 7, ", "\"assistantReply\": \"Noted.\", "}

DataMembers ==
  {"\"extractedData\": null", "\"extractedData\": {}",
   "\"extractedData\": \"Road\"",
   "\"extractedData\": {\"issue_type\": \"Other\", \"description\": \"Noise\"}",
   "\"extractedData\": {\"issue_type\": null, \"location_text\": \"MG Road\"}",
   "\"extractedData\": {\"issue_type\": 7}"}

FullData ==
  "\"extractedData\": {\"issue_type\": \"Road\", \"description\": \"Pothole\", \"location_text\": \"MG Road\"}"

\* Payloads a text backend may answer with: objects, other JSON values and
\* text that is no JSON.
ChatPayloads ==
  {"{" \o r \o FullData \o "}" : r \in ReplyMembers}
  \cup {"{\"assistantReply\": \"Noted.\", " \o d \o "}" : d \in DataMembers}
  \cup {"{}", "{\"assistantReply\": \"Noted.\"}",
        "null", "42", "\"Noted.\"", "[\"Noted.\"]",
        "", "Noted, thanks.", "{\"assistantReply\": \"Noted.\"",
        "{\"assistantReply\": \"Noted.\"} Anything else?"}

VisionPayloads ==
  {"{\"is_civic_issue\": true, \"rejection_reason\": null, \"issue_type\": \"Road\", \"severity\": 7, \"description\": \"Pothole\", \"location_context\": \"Highway\", \"required_action\": \"Deploy Pothole Patching Crew\"}",
   "{\"is_civic_issue\": false, \"rejection_reason\": \"No civic issue found\"}",
   "{}", "[]", "null", "0", "", "I cannot analyze this image.",
   "{\"is_civic_issue\": true"}

\* A payload as the backend sends it: bare, in a code fence, or padded.
Wrapped(payloads) ==
  payloads \cup {FenceJson \o "\n" \o p \o "\n" \o Fence : p \in payloads}
           \cup {" " \o p \o "\n" : p \in payloads}

Backends(payloads) ==
  {[kind |-> "raise"]} \cup {[kind |-> "text", text |-> t] : t \in Wrapped(payloads)}

ChatBackends == Backends(ChatPayloads)
VisionBackends == Backends(VisionPayloads)

---------------------------------------------------------------------------
(* The state machine.  env is the process environment read at start-up     *)
(* (main.py) and at each call (agents.py); one request is in flight at a   *)
(* time, and request is its endpoint and inputs, response what it got.     *)
(* The upvote endpoint is the exception: its handler is a def run on the   *)
(* server's thread pool and makes two calls to the database, so several    *)
(* upvote requests are in flight at once and interleave between the calls. *)
(* upvotes[i] is the upvotes column of the row complaints[i] (None is SQL  *)
(* NULL); upvoters[c] is where caller c's request stands.                  *)

NoRequest == [endpoint |-> "none"]
NoResponse == [status |-> 0]

Clients == 1..MaxClients
NotCalled == [pc |-> "idle"]

\* create_complaint sends no upvotes field: the row gets what the table's
\* schema gives the column, NULL or zero.
ColumnDefaults == {None, Some(0)}
\* What the upvotes column of a stored row may hold.
StoredVotes == {None} \cup {Some(n) : n \in 0..MaxStoredVotes}

Init ==
  /\ env \in [GEMINI_API_KEY : BOOLEAN, OPENAI_API_KEY : BOOLEAN,
              SUPABASE : BOOLEAN]
  /\ request = NoRequest
  /\ response = NoResponse
  /\ complaints = <<>>
  /\ upvotes = <<>>
  /\ upvoters = [c \in Clients |-> NotCalled]

\* main.py: gemini_api_key = os.getenv("GEMINI_API_KEY") or os.getenv("OPENAI_API_KEY")
gemini_api_key == env.GEMINI_API_KEY \/ env.OPENAI_API_KEY

Idle == request = NoRequest

Classify ==
  /\ Idle
  /\ \E issue_type \in IssueTypes :
       /\ request' = [endpoint |-> "run_classification_agent", issue_type |-> issue_type]
       /\ response' = [status |-> 0, returned |-> run_classification_agent(issue_type)]
  /\ UNCHANGED <<env, complaints, upvotes, upvoters>>

Route ==
  /\ Idle
  /\ \E issue_type \in RoutingInputs :
       /\ request' = [endpoint |-> "run_routing_agent", issue_type |-> issue_type]
       /\ response' = [status |-> 0, returned |-> run_routing_agent(issue_type)]
  /\ UNCHANGED <<env, complaints, upvotes, upvoters>>

CreateComplaint ==
  /\ Idle
  /\ Len(complaints) < MaxComplaints
  /\ \E issue_type \in IssueTypes, insert_ok \in BOOLEAN :
       LET row == ComplaintRow(Len(complaints) + 1, issue_type) IN
       /\ request' = [endpoint |-> "/complaints", issue_type |-> issue_type]
       /\ IF ~env.SUPABASE
          THEN /\ response' = HTTP500("Database connection not configured.")
               /\ UNCHANGED <<complaints, upvotes>>
          ELSE IF ~insert_ok
          THEN /\ response' = HTTP500("DB Error")
               /\ UNCHANGED <<complaints, upvotes>>
          ELSE /\ response' = HTTP200([success |-> TRUE, complaint_id |-> row.complaint_id])
               /\ complaints' = Append(complaints, row)
               /\ \E default \in ColumnDefaults : upvotes' = Append(upvotes, default)
  /\ UNCHANGED <<env, upvoters>>

ChatEndpoint ==
  /\ Idle
  /\ \E message \in ChatMessages, language \in Languages,
        backend \in ChatBackends, pydantic_strict \in BOOLEAN :
       /\ request' = [endpoint |-> "/chat", message |-> message,
                      language |-> language, backend |-> backend]
       /\ response' = chat_endpoint(gemini_api_key, message, backend, pydantic_strict)
  /\ UNCHANGED <<env, complaints, upvotes, upvoters>>

AnalyzeImage ==
  /\ Idle
  /\ \E fetch \in {"ok", "ConnectionError", "HTTPError"},
        decode \in {"ok", "UnidentifiedImageError"},
        backend \in VisionBackends :
       /\ request' = [endpoint |-> "/analyze-image", fetch |-> fetch,
                      decode |-> decode, backend |-> backend]
       /\ response' = analyze_image(env.GEMINI_API_KEY, fetch, decode, backend)
  /\ UNCHANGED <<env, complaints, upvotes, upvoters>>

\* The caller has its answer; the next request may come.
Done ==
  /\ ~Idle
  /\ request' = NoRequest
  /\ response' = NoResponse
  /\ UNCHANGED <<env, complaints, upvotes, upvoters>>

\* main.py: upvote_complaint, up to the answer of the select.  The
\* HTTPException(404) is raised inside the try, so "except Exception"
\* catches it and the caller gets a 500 whose detail is str() of it.
UpvoteSelect(c) ==
  /\ upvoters[c].pc = "idle"
  /\ \E complaint_id \in 1..(Len(complaints) + 1), select_ok \in BOOLEAN :
       upvoters' = [upvoters EXCEPT ![c] =
         IF ~env.SUPABASE
         THEN [pc |-> "done", complaint_id |-> complaint_id,
               response |-> HTTP500("Database connection not configured.")]
         ELSE IF ~select_ok
         THEN [pc |-> "done", complaint_id |-> complaint_id,
               response |-> HTTP500("DB Error")]
         ELSE IF complaint_id \notin DOMAIN complaints
         THEN [pc |-> "done", complaint_id |-> complaint_id,
               response |-> HTTP500("404: Complaint not found")]
         ELSE [pc |-> "selected", complaint_id |-> complaint_id,
               current_votes |-> OrZero(upvotes[complaint_id])]]
  /\ UNCHANGED <<env, request, response, complaints, upvotes>>

\* main.py: upvote_complaint, from new_votes to the return.
UpvoteUpdate(c) ==
  /\ upvoters[c].pc = "selected"
  /\ \E update_ok \in BOOLEAN :
       LET complaint_id == upvoters[c].complaint_id
           new_votes == upvoters[c].current_votes + 1
       IN IF update_ok
          THEN /\ upvotes' = [upvotes EXCEPT ![complaint_id] = Some(new_votes)]
               /\ upvoters' = [upvoters EXCEPT ![c] =
                    [pc |-> "done", complaint_id |-> complaint_id,
                     response |-> HTTP200([success |-> TRUE, upvotes |-> new_votes])]]
          ELSE /\ UNCHANGED upvotes
               /\ upvoters' = [upvoters EXCEPT ![c] =
                    [pc |-> "done", complaint_id |-> complaint_id,
                     response |-> HTTP500("DB Error")]]
  /\ UNCHANGED <<env, request, response, complaints>>

UpvoteComplaint == \E c \in Clients : UpvoteSelect(c) \/ UpvoteUpdate(c)

\* The server starts on a table that holds a complaint stored earlier.
InitUpvote ==
  /\ env \in [GEMINI_API_KEY : BOOLEAN, OPENAI_API_KEY : BOOLEAN,
              SUPABASE : BOOLEAN]
  /\ request = NoRequest
  /\ response = NoResponse
  /\ complaints = <<ComplaintRow(1, "pothole on mg road")>>
  /\ upvotes \in {<<v>> : v \in StoredVotes}
  /\ upvoters = [c \in Clients |-> NotCalled]

NextAgents == Classify \/ Route \/ CreateComplaint \/ Done
NextChat == ChatEndpoint \/ Done
NextVision == AnalyzeImage \/ Done
NextUpvote == UpvoteComplaint
Next ==
  \/ Classify \/ Route \/ CreateComplaint \/ ChatEndpoint \/ AnalyzeImage
  \/ Done \/ UpvoteComplaint

Spec == Init /\ [][Next]_vars
SpecAgents == Init /\ [][NextAgents]_vars
SpecChat == Init /\ [][NextChat]_vars
SpecVision == Init /\ [][NextVision]_vars
SpecUpvote == InitUpvote /\ [][NextUpvote]_vars

---------------------------------------------------------------------------
(* The classification and routing agents (SpecAgents).                     *)

\* The keyword groups in the order the specification declares them.
Groups == <<"Garbage", "Road", "Water", "Streetlight">>

GroupKeywords ==
  [Garbage |-> {"garbage", "trash", "waste", "dustbin"},
   Road |-> {"road", "pothole", "street", "asphalt"},
   Water |-> {"water", "leak", "pipe", "drainage"},
   Streetlight |-> {"streetlight", "light", "lamp", "dark"}]

\* The indices of the groups with a keyword occurring in key.
GroupsHit(keywords, key) ==
  {i \in 1..Len(Groups) : \E k \in keywords[Groups[i]] : Contains(k, key)}

Classified == request.endpoint = "run_classification_agent"

C1_WitnessBlank ==
  /\ Classified
  /\ request.issue_type = " " \o " "
  /\ response.returned = "General"

Routed == request.endpoint = "run_routing_agent"

\* C2: run_routing_agent maps Garbage, Road, Water, Streetlight and General
\* to their departments and every other value to City Helpdesk.
C2_RoutingTotal ==
  Routed =>
    response.returned =
      CASE request.issue_type = "Garbage" -> "Sanitation Dept."
        [] request.issue_type = "Road" -> "Public Works Dept."
        [] request.issue_type = "Water" -> "Water Board"
        [] request.issue_type = "Streetlight" -> "Electricity Board"
        [] request.issue_type = "General" -> "Municipal Corporation"
        [] OTHER -> "City Helpdesk"

\* C2 witness: a value outside the vocabulary routed to City Helpdesk.
C2_Witness ==
  /\ Routed
  /\ request.issue_type = "Other"
  /\ response.returned = "City Helpdesk"

\* C10: the raw issue type "Rubbish near my house", classified and routed
\* by create_complaint, is stored as Garbage for the Sanitation Dept.
C10_RubbishIsGarbage ==
  (/\ request.endpoint = "/complaints"
   /\ request.issue_type = "Rubbish near my house"
   /\ response.status = 200)
  => /\ complaints[Len(complaints)].issue_type = "Garbage"
     /\ complaints[Len(complaints)].assigned_department = "Sanitation Dept."

\* The category whose name the text spells, letter case and surrounding
\* whitespace apart.
CategoryNamed(text) ==
  CHOOSE c \in Categories : Lower(c) = Strip(Lower(text))

\* The department the specification assigns to a category.
DepartmentOf ==
  [Garbage |-> "Sanitation Dept.", Road |-> "Public Works Dept.",
   Water |-> "Water Board", Streetlight |-> "Electricity Board",
   General |-> "Municipal Corporation"]

\* C11: the category names are fixed points of run_classification_agent,
\* in any letter case and with any surrounding whitespace; create_complaint
\* stores a submitted category unchanged, with that category's department;
\* and classifying the classifier's answer again gives the same answer.
C11_CategoriesAreFixedPoints ==
  /\ (Classified /\ request.issue_type \in CategorySpellings)
       => response.returned = CategoryNamed(request.issue_type)
  /\ (/\ request.endpoint = "/complaints"
      /\ request.issue_type \in CategorySpellings
      /\ response.status = 200)
       => LET c == CategoryNamed(request.issue_type)
              row == complaints[Len(complaints)]
          IN /\ row.issue_type = c
             /\ row.assigned_department = DepartmentOf[c]
  /\ Classified
       => run_classification_agent(response.returned) = response.returned

---------------------------------------------------------------------------
(* The chat endpoint (SpecChat).                                           *)

Chatted == request.endpoint = "/chat"

\* The backend was called and answered with text.
BackendAnswered == Chatted /\ gemini_api_key /\ request.backend.kind = "text"

\* No credential, or the backend call raised.
BackendDown == Chatted /\ (~gemini_api_key \/ request.backend.kind = "raise")

\* What json.loads makes of the backend's cleaned text.
AnswerParsed == json_loads(CleanText(request.backend.text))

\* C3: the chat endpoint answers every request with a result, whatever the
\* backend does: no credential, an exception, text that is no JSON, JSON
\* that is no object, an object with missing or null fields.
C3_ChatNeverFaults == Chatted => response.status = 200

\* C3 witness: the backend answered with JSON that is no object, and the
\* caller got a result.
C3_Witness ==
  /\ BackendAnswered
  /\ AnswerParsed.ok
  /\ AnswerParsed.v.t # "obj"
  /\ response.status = 200

\* The keyword groups of the fallback logic.
FallbackKeywords ==
  [Garbage |-> {"garbage", "trash", "rubbish"},
   Road |-> {"road", "pothole"},
   Water |-> {"water", "leak", "pipe"},
   Streetlight |-> {"light", "lamp", "dark"}]

\* C4: with no credential, or when the backend call raises, the result is
\* the deterministic fallback: the category of the first keyword group
\* found in the lower-cased message (General when none is), the message
\* verbatim as description, the empty location and the fixed reply, in any
\* target language.
C4_DeterministicFallback ==
  BackendDown =>
    LET hit == GroupsHit(FallbackKeywords, Lower(request.message))
        category == IF hit = {} THEN "General"
                    ELSE Groups[CHOOSE i \in hit : \A j \in hit : i <= j]
    IN response =
         [status |-> 200,
          body |-> [assistantReply |->
                      "I've identified this as a '" \o category
                        \o "' issue. I've automatically filled out the form for you with the details.",
                    extractedData |-> [issue_type |-> <<category>>,
                                       description |-> <<request.message>>,
                                       location_text |-> <<"">>]]]

\* C4 witness: the backend raised on a Hindi request naming two groups, and
\* the fallback chose the earlier group.
C4_Witness ==
  /\ Chatted
  /\ gemini_api_key
  /\ request.backend.kind = "raise"
  /\ request.language = "Hindi"
  /\ request.message = "Water leak on the dark road"
  /\ response.body.extractedData.issue_type = <<"Road">>

\* C5: text of the backend that is no JSON object comes back as the reply,
\* with the message as description and no category and no location.
C5_UnparsedTextIsReply ==
  (BackendAnswered /\ (~AnswerParsed.ok \/ AnswerParsed.v.t # "obj"))
  => /\ response.status = 200
     /\ response.body.assistantReply
          \in {request.backend.text, CleanText(request.backend.text)}
     /\ response.body.extractedData =
          [issue_type |-> None, description |-> <<request.message>>,
           location_text |-> None]

\* C6: the reply of every result is a non-empty string.
C6_ReplyNonEmpty ==
  (Chatted /\ response.status = 200) => response.body.assistantReply # ""

\* C7: the category of every result is unset or one of Garbage, Road,
\* Water, Streetlight, General.
C7_CategoryInVocabulary ==
  (Chatted /\ response.status = 200)
  => \/ response.body.extractedData.issue_type = None
     \/ response.body.extractedData.issue_type[1] \in Categories

\* C9: the category of the fallback path is the category
\* run_classification_agent returns for the same message.
C9_FallbackAgreesWithClassifier ==
  (BackendDown /\ response.status = 200)
  => response.body.extractedData.issue_type
       = <<run_classification_agent(request.message)>>

---------------------------------------------------------------------------
(* The image analysis endpoint (SpecVision).                               *)

\* The fields of the fixed rejection result.
IsRejection(v) ==
  /\ v.t = "obj"
  /\ {"is_civic_issue", "rejection_reason", "issue_type", "severity",
      "description"} \subseteq DOMAIN v.f
  /\ v.f["is_civic_issue"] = JBool(FALSE)
  /\ v.f["rejection_reason"] = JStr("Analysis failed, please try again.")
  /\ v.f["issue_type"] = JStr("General")
  /\ v.f["severity"] = JNum(0)
  /\ v.f["description"] = JStr("")

\* The analysis could not be made: no credential, the download or the
\* decoding failed, the backend raised or its payload does not parse.
AnalysisFailed ==
  /\ request.endpoint = "/analyze-image"
  /\ \/ ~env.GEMINI_API_KEY
     \/ request.fetch # "ok"
     \/ request.decode # "ok"
     \/ request.backend.kind = "raise"
     \/ ~AnswerParsed.ok

\* C8: when the analysis cannot be made the caller receives the fixed
\* rejection result, never an error response.
C8_VisionAlwaysRejects ==
  AnalysisFailed => response.status = 200 /\ IsRejection(response.body)

---------------------------------------------------------------------------
(* The upvote endpoint (SpecUpvote).                                       *)

\* Caller c's request got the answer success.
Upvoted(c) == upvoters[c].pc = "done" /\ upvoters[c].response.status = 200

\* The step in which caller c's request writes the count and succeeds.
UpvoteSucceeds(c) == upvoters[c].pc = "selected" /\ Upvoted(c)'

\* C12: no upvote is lost.  Every step in which an upvote request succeeds
\* raises the stored count of its complaint by exactly one, whatever the
\* other requests in flight have done, and the counts returned to two
\* successful requests for the same complaint differ.
C12_NoUpvoteLost ==
  /\ [][\A c \in Clients :
          UpvoteSucceeds(c) =>
            OrZero(upvotes'[upvoters[c].complaint_id])
              = OrZero(upvotes[upvoters[c].complaint_id]) + 1]_vars
  /\ [](\A c, d \in Clients :
          (c # d /\ Upvoted(c) /\ Upvoted(d)
             /\ upvoters[c].complaint_id = upvoters[d].complaint_id)
          => upvoters[c].response.body.upvotes # upvoters[d].response.body.upvotes)

====
